---- MODULE Spec2Model ----
(***************************************************************************)
(* A model of src/app.py: the /compare handler with its two paginators     *)
(* (get_legacy_results, get_new_results) and the saved-search store        *)
(* (save_search, load_searches, delete_search over the sqlite table).      *)
(*                                                                         *)
(* Python values are modelled as follows.                                  *)
(*   str        a sequence of chunks (characters for identifiers, whole    *)
(*              words for messages); "+" is \o, "" is <<>>                 *)
(*   None | x   <<>> for None, <<x>> for x (see None, Some)                *)
(*   dict       a function whose DOMAIN is the set of keys present         *)
(*   a JSON value that is not an object where one is expected              *)
(*              the function NotAnObject                                   *)
(*   cursor     a page number >= 1; 0 stands for every falsy value         *)
(*              (missing key, null, "")                                    *)
(***************************************************************************)
EXTENDS Integers, Sequences, FiniteSets, TLC

\* ------------------------------------------------------------- bounds
\* Longest continuation chain an API serves (an endless chain cycles).
MaxPages == 2
\* Most records on one page.
MaxHits == 2
\* Most rows ever inserted into saved_searches.
MaxId == 2
\* Last second of the clock behind CURRENT_TIMESTAMP.
MaxClock == 1

\* ------------------------------------------------------ python values
None == <<>>
Some(x) == <<x>>

\* dict.get(key, default)
Get(d, key, default) == IF key \in DOMAIN d THEN d[key] ELSE default

\* A JSON value (null, a number, ...) found where the code expects an
\* object: "key in v" or v.get(...) raises TypeError / AttributeError.
NotAnObject == [json |-> "null"]
IsObject(v) == "json" \notin DOMAIN v

\* Python truthiness of an optional str: None and "" are falsy.
TruthyMutant(text) == text # None
Truthy(text) == text # None /\ Len(text[1]) > 0

\* ---------------------------------------------------------- exceptions
\* An exception: its class (is it a requests.exceptions.RequestException?),
\* str(e), and e.response.text when a response is attached.
RequestExc(msg, resp) == [request |-> TRUE, msg |-> msg, response |-> resp]
OtherExc(msg) == [request |-> FALSE, msg |-> msg, response |-> None]

\* What requests.get/post, raise_for_status and response.json can raise:
\* a connection error built without a message, an HTTP error carrying the
\* response body, and an exception outside the requests hierarchy (a
\* ValueError from json() in older requests, an AttributeError from
\* data.get on a body that is not an object). The text of a message is
\* opaque to the program: one word stands for every non-empty one.
FetchExceptions ==
    { RequestExc(<<>>, None),
      RequestExc(<<"failed">>, Some(<<"body">>)),
      OtherExc(<<"failed">>) }

\* The TypeError / AttributeError python raises on a malformed record or
\* links value.
ShapeExc == OtherExc(<<"failed">>)

\* ---------------------------------------------------------- identifiers
IpA == <<"1", "0", ".", "0", ".", "0", ".", "1">>
IpB == <<"9", ".", "9", ".", "9", ".", "9">>
IpC == <<"1", ".", "1", ".", "1", ".", "1">>
IPs == {IpA, IpB, IpC}
HostName == <<"a", ".", "i", "o">>

\* Characters in code-point order, as python compares str.
Alphabet == <<".", "0", "1", "2", "3", "4", "5", "6", "7", "8", "9",
              "a", "i", "o">>
Ord(ch) == CHOOSE i \in 1..Len(Alphabet) : Alphabet[i] = ch
Digits == {"0", "1", "2", "3", "4", "5", "6", "7", "8", "9"}

\* str < str
RECURSIVE StrLess(_, _)
StrLess(s, t) ==
    IF s = <<>> THEN t # <<>>
    ELSE IF t = <<>> THEN FALSE
    ELSE IF Head(s) = Head(t) THEN StrLess(Tail(s), Tail(t))
    ELSE Ord(Head(s)) < Ord(Head(t))

\* sorted(list(S)) for a set S of str
RECURSIVE SortedMutant(_)
SortedMutant(S) ==
    IF S = {} THEN <<>>
    ELSE LET m == CHOOSE x \in S : \A y \in S \ {x} : StrLess(y, x)
         IN <<m>> \o SortedMutant(S \ {m})
RECURSIVE Sorted(_)
Sorted(S) ==
    IF S = {} THEN <<>>
    ELSE LET m == CHOOSE x \in S : \A y \in S \ {x} : StrLess(x, y)
         IN <<m>> \o Sorted(S \ {m})

Range(seq) == {seq[i] : i \in 1..Len(seq)}

\* hostname.replace('.', '')
RECURSIVE ReplaceDots(_)
ReplaceDots(s) ==
    IF s = <<>> THEN <<>>
    ELSE IF Head(s) = "." THEN ReplaceDots(Tail(s))
    ELSE <<Head(s)>> \o ReplaceDots(Tail(s))

\* str.isdigit(): non-empty and digits only
IsDigit(s) == s # <<>> /\ \A i \in 1..Len(s) : s[i] \in Digits

\* --------------------------------------------------- schema normalizers
\* get_legacy_results, the loop "for hit in hits: if 'ip' in hit:
\* ips.add(hit['ip'])": identifiers are added one record at a time, so a
\* malformed record stops the loop with the earlier ones already added.
RECURSIVE LegacyHits(_, _)
LegacyHits(ips, hits) ==
    IF hits = <<>> THEN [ips |-> ips, exc |-> None]
    ELSE IF ~IsObject(Head(hits)) THEN [ips |-> ips, exc |-> Some(ShapeExc)]
    ELSE LegacyHits(IF "ip" \in DOMAIN Head(hits)
                    THEN ips \cup {Head(hits).ip} ELSE ips,
                    Tail(hits))

\* extract_ips_from_hits, the body of its loop for one well-formed record.
ExtractHitFlatFirst(hit) ==
    IF "ip" \in DOMAIN hit THEN {hit.ip}
    ELSE IF "ip_address" \in DOMAIN hit THEN {hit.ip_address}
    ELSE IF "webproperty_v1" \in DOMAIN hit
    THEN LET resource == Get(hit.webproperty_v1, "resource", <<>>)
             endpoints == Get(resource, "endpoints", <<>>)
         IN (IF "hostname" \in DOMAIN resource
                /\ IsDigit(ReplaceDots(resource.hostname))
             THEN {resource.hostname} ELSE {})
            \cup {endpoints[i].ip :
                    i \in {j \in 1..Len(endpoints) : "ip" \in DOMAIN endpoints[j]}}
    ELSE IF "host_v1" \in DOMAIN hit
    THEN LET resource == Get(hit.host_v1, "resource", <<>>)
         IN IF "ip" \in DOMAIN resource THEN {resource.ip} ELSE {}
    ELSE {}
ExtractHit(hit) ==
    IF "webproperty_v1" \in DOMAIN hit
    THEN LET resource == Get(hit.webproperty_v1, "resource", <<>>)
             endpoints == Get(resource, "endpoints", <<>>)
         IN (IF "hostname" \in DOMAIN resource
                /\ IsDigit(ReplaceDots(resource.hostname))
             THEN {resource.hostname} ELSE {})
            \cup {endpoints[i].ip :
                    i \in {j \in 1..Len(endpoints) : "ip" \in DOMAIN endpoints[j]}}
    ELSE IF "host_v1" \in DOMAIN hit
    THEN LET resource == Get(hit.host_v1, "resource", <<>>)
         IN IF "ip" \in DOMAIN resource THEN {resource.ip} ELSE {}
    ELSE IF "ip" \in DOMAIN hit THEN {hit.ip}
    ELSE IF "ip_address" \in DOMAIN hit THEN {hit.ip_address}
    ELSE {}

\* extract_ips_from_hits: the set is built locally and returned whole, so a
\* malformed record makes the call raise with nothing handed back.
extract_ips_from_hits(hits) ==
    IF \E i \in 1..Len(hits) : ~IsObject(hits[i])
    THEN [extracted |-> {}, exc |-> Some(ShapeExc)]
    ELSE [extracted |-> UNION {ExtractHit(hits[i]) : i \in 1..Len(hits)},
          exc |-> None]

\* result.get("links", {}).get("next")
LinksNextMutant(result) == [tok |-> 0, exc |-> None]
LinksNext(result) ==
    LET links == Get(result, "links", <<>>)
    IN IF ~IsObject(links) THEN [tok |-> 0, exc |-> Some(ShapeExc)]
       ELSE [tok |-> Get(links, "next", 0), exc |-> None]

\* The first page's except clause: error = str(e), and " - " + the
\* response text when the exception carries a response.
FirstPageErrorMutant(e) == None
FirstPageError(e) ==
    Some(IF e.response # None THEN e.msg \o <<" - ">> \o e.response[1]
         ELSE e.msg)

\* The loop's except clause: error = f"Pagination error: {str(e)}"
PaginationErrorPlain(e) == Some(e.msg)
PaginationError(e) == Some(<<"Pagination error: ">> \o e.msg)

\* ------------------------------------------------------------ paginators
\* What a fetch hands back: the exception raised by requests.get/post,
\* raise_for_status or response.json, or the "result" object of the body.
Raise(e) == [exc |-> Some(e), result |-> <<>>]
Ok(result) == [exc |-> None, result |-> result]

\* get_legacy_results up to its loop: the paginator's locals after the first
\* page, and how control leaves: "loop" into the while loop, "return", or
\* "raise" for an exception no except clause of the function catches.
LegacyFirst(resp, fetchAll) ==
    LET stop(ctl, err) ==
            [ips |-> {}, total_hits |-> 0, error |-> err, cursor |-> 0,
             ctl |-> ctl]
    IN IF resp.exc # None
       THEN IF resp.exc[1].request
            THEN stop("return", FirstPageError(resp.exc[1]))
            ELSE stop("raise", None)
       ELSE LET result == resp.result
                h == LegacyHits({}, Get(result, "hits", <<>>))
                n == LinksNext(result)
            IN IF h.exc # None THEN stop("raise", None)
               ELSE IF fetchAll /\ n.exc # None THEN stop("raise", None)
               ELSE [ips |-> h.ips,
                     total_hits |-> Get(result, "total", 0),
                     error |-> None,
                     cursor |-> IF fetchAll THEN n.tok ELSE 0,
                     ctl |-> IF fetchAll /\ n.tok # 0 THEN "loop"
                             ELSE "return"]

\* One turn of get_legacy_results's while loop.
LegacyNextDiscards(ips, cursor, resp) ==
    LET fail(got, e) ==
            [ips |-> {}, error |-> PaginationError(e), cursor |-> cursor,
             ctl |-> "return"]
    IN IF resp.exc # None THEN fail(ips, resp.exc[1])
       ELSE LET result == resp.result
                h == LegacyHits(ips, Get(result, "hits", <<>>))
                n == LinksNext(result)
            IN IF h.exc # None THEN fail(h.ips, h.exc[1])
               ELSE IF n.exc # None THEN fail(h.ips, n.exc[1])
               ELSE [ips |-> h.ips, error |-> None, cursor |-> n.tok,
                     ctl |-> IF n.tok # 0 THEN "loop" ELSE "return"]
LegacyNextStale(ips, cursor, resp) ==
    LET fail(got, e) ==
            [ips |-> got, error |-> PaginationError(e), cursor |-> cursor,
             ctl |-> "return"]
    IN IF resp.exc # None THEN fail(ips, resp.exc[1])
       ELSE LET result == resp.result
                h == LegacyHits(ips, Get(result, "hits", <<>>))
                n == LinksNext(result)
            IN IF h.exc # None THEN fail(h.ips, h.exc[1])
               ELSE IF n.exc # None THEN fail(h.ips, n.exc[1])
               ELSE [ips |-> h.ips, error |-> None, cursor |-> cursor,
                     ctl |-> IF n.tok # 0 THEN "loop" ELSE "return"]
LegacyNextStuck(ips, cursor, resp) ==
    LET fail(got, e) ==
            [ips |-> got, error |-> PaginationError(e), cursor |-> cursor,
             ctl |-> "return"]
    IN IF resp.exc # None THEN fail(ips, resp.exc[1])
       ELSE LET result == resp.result
                h == LegacyHits(ips, Get(result, "hits", <<>>))
                n == LinksNext(result)
            IN IF h.exc # None THEN fail(h.ips, h.exc[1])
               ELSE IF n.exc # None THEN fail(h.ips, n.exc[1])
               ELSE [ips |-> h.ips, error |-> None,
                     cursor |-> (cursor % MaxPages) + 1, ctl |-> "loop"]
LegacyNext(ips, cursor, resp) ==
    LET fail(got, e) ==
            [ips |-> got, error |-> PaginationError(e), cursor |-> cursor,
             ctl |-> "return"]
    IN IF resp.exc # None THEN fail(ips, resp.exc[1])
       ELSE LET result == resp.result
                h == LegacyHits(ips, Get(result, "hits", <<>>))
                n == LinksNext(result)
            IN IF h.exc # None THEN fail(h.ips, h.exc[1])
               ELSE IF n.exc # None THEN fail(h.ips, n.exc[1])
               ELSE [ips |-> h.ips, error |-> None, cursor |-> n.tok,
                     ctl |-> IF n.tok # 0 THEN "loop" ELSE "return"]

\* get_new_results up to its loop.
NewFirst(resp, fetchAll) ==
    LET stop(ctl, err) ==
            [ips |-> {}, total_hits |-> 0, error |-> err, cursor |-> 0,
             ctl |-> ctl]
    IN IF resp.exc # None
       THEN IF resp.exc[1].request
            THEN stop("return", FirstPageError(resp.exc[1]))
            ELSE stop("raise", None)
       ELSE LET result == resp.result
                hits == Get(result, "hits", <<>>)
                x == extract_ips_from_hits(hits)
                n == LinksNext(result)
            IN IF x.exc # None THEN stop("raise", None)
               ELSE IF fetchAll /\ n.exc # None THEN stop("raise", None)
               ELSE [ips |-> x.extracted,
                     total_hits |->
                         Get(result, "total_results",
                             Get(result, "total_count",
                                 Get(result, "total", Len(hits)))),
                     error |-> None,
                     cursor |-> IF fetchAll THEN n.tok ELSE 0,
                     ctl |-> IF fetchAll /\ n.tok # 0 THEN "loop"
                             ELSE "return"]

\* One turn of get_new_results's while loop.
NewNext(ips, cursor, resp) ==
    LET fail(got, e) ==
            [ips |-> got, error |-> PaginationError(e), cursor |-> cursor,
             ctl |-> "return"]
    IN IF resp.exc # None THEN fail(ips, resp.exc[1])
       ELSE LET result == resp.result
                x == extract_ips_from_hits(Get(result, "hits", <<>>))
                n == LinksNext(result)
            IN IF x.exc # None THEN fail(ips, x.exc[1])
               ELSE IF n.exc # None THEN fail(ips \cup x.extracted, n.exc[1])
               ELSE [ips |-> ips \cup x.extracted, error |-> None,
                     cursor |-> n.tok,
                     ctl |-> IF n.tok # 0 THEN "loop" ELSE "return"]

\* ---------------------------------------------------------------- compare
\* status, lines 246-252: "if legacy_error or new_error" tests truthiness.
StatusOf(legacy_err, new_err, missing) ==
    IF Truthy(legacy_err) \/ Truthy(new_err) THEN "error"
    ELSE IF missing # {} THEN "warning"
    ELSE "success"

MissingInNewSwapped(l_ips, n_ips) == n_ips \ l_ips
MissingInNew(l_ips, n_ips) == l_ips \ n_ips
OnlyInNew(l_ips, n_ips) == n_ips \ l_ips
CommonIps(l_ips, n_ips) == l_ips \cap n_ips

\* The body compare returns (lines 241-273).
CompareResult(l_ips, l_total, l_err, n_ips, n_total, n_err) ==
    [code |-> 200,
     status |-> StatusOf(l_err, n_err, MissingInNew(l_ips, n_ips)),
     legacy |-> [total |-> l_total, fetched |-> Cardinality(l_ips),
                 ips |-> Sorted(l_ips), error |-> l_err],
     new |-> [total |-> n_total, fetched |-> Cardinality(n_ips),
              ips |-> Sorted(n_ips), error |-> n_err],
     comparison |-> [common |-> Cardinality(CommonIps(l_ips, n_ips)),
                     missing_in_new |-> Sorted(MissingInNew(l_ips, n_ips)),
                     only_in_new |-> Sorted(OnlyInNew(l_ips, n_ips))]]

\* The 400 body of line 229.
QueriesRequired == [code |-> 400, error |-> "Both queries are required"]

\* str.strip() on a query, whose characters are " " and "q" here.
RECURSIVE LStrip(_)
LStrip(s) == IF s # <<>> /\ Head(s) = " " THEN LStrip(Tail(s)) ELSE s
RECURSIVE RStrip(_)
RStrip(s) ==
    IF s # <<>> /\ s[Len(s)] = " " THEN RStrip(SubSeq(s, 1, Len(s) - 1)) ELSE s
Strip(s) == RStrip(LStrip(s))

\* Queries a request may carry (a missing key reads as '').
Queries == {<<>>, <<" ">>, <<"q">>, <<" ", "q", " ">>}

\* ------------------------------------------------------------- the APIs
\* The continuation chain an API serves for a query: N pages, or, for 0, a
\* chain that never ends (its cursors cycle).
Chains == 0..MaxPages

\* The cursor page p of a chain hands out: the next page, or 0 for none.
NextTok(N, p) ==
    IF N = 0 THEN (p % MaxPages) + 1
    ELSE IF p < N THEN p + 1 ELSE 0

\* Records the legacy API may send: an "ip" field, no "ip" field, or a value
\* that is not an object.
LegacyCatalog ==
    {[ip |-> IpA], [ip |-> IpB], [name |-> HostName], NotAnObject}

\* Records the new API may send: each envelope, records carrying the keys
\* of two shapes, and a value that is not an object. The two APIs index
\* overlapping sets of hosts.
NewCatalog ==
    { [host_v1 |-> [resource |-> [ip |-> IpB]], ip |-> IpC],
      [webproperty_v1 |->
          [resource |-> [hostname |-> IpC, endpoints |-> <<[ip |-> IpB]>>]]],
      [ip |-> IpC, ip_address |-> IpB],
      NotAnObject }

\* The "hits" lists a page may carry.
LegacyHitSeqs == UNION {[1..n -> LegacyCatalog] : n \in 0..MaxHits}
NewHitSeqs == UNION {[1..n -> NewCatalog] : n \in 0..MaxHits}
HitSeqs(side) == IF side = "legacy" THEN LegacyHitSeqs ELSE NewHitSeqs

\* The total-count fields of a first page, each present or not.
TotalKeys(side) ==
    IF side = "legacy" THEN {"total"}
    ELSE {"total_results", "total_count", "total"}
TotalValue == [total_results |-> 11, total_count |-> 12, total |-> 13]

\* A "result" object: its records, its links value, and the total-count
\* fields K it carries.
Result(hits, links, K) ==
    [k \in {"hits", "links"} \cup K |->
        IF k = "hits" THEN hits ELSE IF k = "links" THEN links
        ELSE TotalValue[k]]

\* The links value of page p of chain N: the chain's cursor under "next",
\* or a value that is not an object.
LinkValues(N, p) == {[next |-> NextTok(N, p)], NotAnObject}

\* The total-count fields a page may carry (read on a first page only).
TotalSets(side, p) == IF p = 1 THEN SUBSET TotalKeys(side) ELSE {{}}

\* -------------------------------------------------------------- the store
\* The threads of the server that may be inside save_search at once.
Clients == {"c1", "c2"}

\* Names a save request may carry (a missing key reads as '').
Names == {<<>>, <<"x">>, <<" ", "x">>, <<"y">>}

\* What a save request stores under its name.
Payloads ==
    { [legacy_query |-> <<"q">>, new_query |-> <<"q">>,
       virtual_hosts |-> "INCLUDE", results |-> "r1"],
      [legacy_query |-> <<" ", "q">>, new_query |-> <<"q", " ">>,
       virtual_hosts |-> "EXCLUDE", results |-> "r2"] }

\* json.dumps / json.loads of a result snapshot.
Dumps(v) == <<"json", v>>
Loads(text) == text[2]

\* SELECT id FROM saved_searches WHERE name = ?; fetchone() is a row or None.
SelectByName(rows, name) == {r \in rows : r.name = name}

\* "if existing and not overwrite" (line 297) and "if existing and
\* overwrite" (line 304): what save_search does after its SELECT.
SaveBranchBlind(existing, overwrite) == "insert"
SaveBranch(existing, overwrite) ==
    IF existing /\ ~overwrite THEN "reject"
    ELSE IF existing /\ overwrite THEN "update"
    ELSE "insert"

\* UPDATE saved_searches SET ... , timestamp = CURRENT_TIMESTAMP WHERE name = ?
UpdateEveryRow(rows, name, p, now) ==
    { [r EXCEPT !.legacy_query = p.legacy_query,
                !.new_query = p.new_query,
                !.virtual_hosts = p.virtual_hosts,
                !.results = Dumps(p.results),
                !.timestamp = now] : r \in rows }
UpdateByName(rows, name, p, now) ==
    { IF r.name = name
      THEN [r EXCEPT !.legacy_query = p.legacy_query,
                     !.new_query = p.new_query,
                     !.virtual_hosts = p.virtual_hosts,
                     !.results = Dumps(p.results),
                     !.timestamp = now]
      ELSE r : r \in rows }

\* INSERT INTO saved_searches (name, legacy_query, new_query, virtual_hosts,
\* results): the id from AUTOINCREMENT, the timestamp from its default.
InsertRow(rows, id, name, p, now) ==
    rows \cup {[id |-> id, name |-> name, legacy_query |-> p.legacy_query,
                new_query |-> p.new_query, virtual_hosts |-> p.virtual_hosts,
                results |-> Dumps(p.results), timestamp |-> now]}

\* DELETE FROM saved_searches WHERE id = ?
DeleteThrough(rows, id) == {r \in rows : r.id > id}
DeleteById(rows, id) == {r \in rows : r.id # id}

\* SELECT ... FROM saved_searches ORDER BY timestamp DESC: the rows in an
\* order of non-increasing timestamp; SQL leaves the order of rows with equal
\* timestamps open.
OrderByTimestampDesc(rows) ==
    {seq \in [1..Cardinality(rows) -> rows] :
        /\ \A i, j \in 1..Cardinality(rows) : i # j => seq[i] # seq[j]
        /\ \A i, j \in 1..Cardinality(rows) :
              i < j => seq[i].timestamp >= seq[j].timestamp}

\* The dict load_searches builds from a row (lines 343-351).
Listing(r) == [r EXCEPT !.results = Loads(r.results)]

\* ------------------------------------------------------------------ state
VARIABLES
    pc,             \* where the compare handler is
    legacy_query, new_query,   \* the request's queries, stripped
    fetch_all,      \* the request's fetch_all flag
    legacy_ips, legacy_total, legacy_error,   \* get_legacy_results: ips, total_hits, error
    next_cursor,                              \* get_legacy_results: next_cursor
    new_ips, new_total, new_error,            \* get_new_results: ips, total_hits, error
    page_token,                               \* get_new_results: page_token
    response,       \* what compare returned: None or Some(body)
    running,        \* the paginator called last: "none", "legacy" or "new"
    chain,          \* the chain its API serves for the query
    calls,          \* the fetches it issued (requests.get / requests.post)
    pages_ok,       \* the identifiers of the pages it fetched and processed whole
    outcome,        \* how its last fetch ended
    requested,      \* the token its last fetch was issued with (0: none)
    served,         \* the token the response to its last fetch carried (0: none)
    table,          \* the rows of saved_searches
    next_id,        \* the id AUTOINCREMENT gives the next inserted row
    clock,          \* CURRENT_TIMESTAMP, in seconds
    saves,          \* per client, its save_search request between SELECT and write
    reply,          \* the response sent last by a store route: None or Some(body)
    record,         \* a record handed to extract_ips_from_hits
    normalized,     \* what the calls of extract_ips_from_hits on it returned
    page,           \* a first-page response handed to a paginator, and its side
    first           \* what the paginator made of it: None or Some(locals)

compare_vars ==
    <<pc, legacy_query, new_query, fetch_all, legacy_ips, legacy_total, legacy_error, next_cursor,
      new_ips, new_total, new_error, page_token, response,
      running, chain, calls, pages_ok, outcome, requested, served>>

store_vars == <<table, next_id, clock, saves, reply>>

norm_vars == <<record, normalized>>

hint_vars == <<page, first>>

vars == <<compare_vars, store_vars, norm_vars, hint_vars>>

\* How a fetch ended: "transport" when requests.get/post, raise_for_status or
\* json raised a RequestException, "exception" when they raised anything
\* else, "malformed" when the page arrived and processing it raised.
Outcome(resp, ctl, err) ==
    IF resp.exc # None
    THEN IF resp.exc[1].request THEN "transport" ELSE "exception"
    ELSE IF ctl = "raise" \/ err # None THEN "malformed"
    ELSE "ok"

\* The identifiers of a page, by its API's normalizer.
PageIds(side, resp) ==
    IF side = "legacy" THEN LegacyHits({}, Get(resp.result, "hits", <<>>)).ips
    ELSE extract_ips_from_hits(Get(resp.result, "hits", <<>>)).extracted

\* The continuation token a response carries: the "next" of its links, 0
\* when there is no response or no token in it.
TokenOf(resp) ==
    IF resp.exc # None THEN 0
    ELSE LET links == Get(resp.result, "links", <<>>)
         IN IF IsObject(links) THEN Get(links, "next", 0) ELSE 0

\* The fetch counter, held at MaxPages + 1 (only an endless chain gets there).
Count(n) == IF n <= MaxPages THEN n + 1 ELSE n

\* A paginator is entered: its first fetch, of page 1 of chain N.
FirstFetch(side, N, resp, ctl, err) ==
    /\ chain' = N
    /\ running' = side
    /\ calls' = 1
    /\ outcome' = Outcome(resp, ctl, err)
    /\ pages_ok' = IF Outcome(resp, ctl, err) = "ok"
                   THEN PageIds(side, resp) ELSE {}
    /\ requested' = 0
    /\ served' = TokenOf(resp)

\* A continuation fetch of the running paginator.
NextFetch(resp, ctl, err) ==
    /\ calls' = Count(calls)
    /\ outcome' = Outcome(resp, ctl, err)
    /\ pages_ok' = IF Outcome(resp, ctl, err) = "ok"
                   THEN pages_ok \cup PageIds(running, resp) ELSE pages_ok
    /\ requested' = (IF running = "legacy" THEN next_cursor ELSE page_token)
    /\ served' = TokenOf(resp)
    /\ UNCHANGED <<running, chain>>

Started ==
    /\ pc = "idle"
    /\ legacy_query = <<>> /\ new_query = <<>>
    /\ fetch_all = FALSE
    /\ legacy_ips = {} /\ legacy_total = 0 /\ legacy_error = None
    /\ next_cursor = 0
    /\ new_ips = {} /\ new_total = 0 /\ new_error = None
    /\ page_token = 0
    /\ response = None
    /\ running = "none"
    /\ chain = 1
    /\ calls = 0
    /\ pages_ok = {}
    /\ outcome = "none"
    /\ requested = 0 /\ served = 0
    /\ table = {}
    /\ next_id = 1
    /\ clock = 0
    /\ saves = [c \in Clients |-> None]
    /\ reply = None

\* No first page drawn.
NoPage == [side |-> "none", fetch_all |-> FALSE, resp |-> Ok(<<>>)]

Init ==
    /\ Started
    /\ record = <<>> /\ normalized = <<>>
    /\ page = NoPage /\ first = None

\* compare, lines 222-231: read the request, reject an empty query.
CompareRequest ==
    /\ pc = "idle"
    /\ \E lq \in Queries, nq \in Queries, fa \in BOOLEAN :
          /\ legacy_query' = Strip(lq)
          /\ new_query' = Strip(nq)
          /\ fetch_all' = fa
          /\ IF Strip(lq) = <<>> \/ Strip(nq) = <<>>
             THEN pc' = "done" /\ response' = Some(QueriesRequired)
             ELSE pc' = "legacy_first" /\ response' = None
    /\ UNCHANGED <<legacy_ips, legacy_total, legacy_error, next_cursor,
                   new_ips, new_total, new_error, page_token,
                   running, chain, calls, pages_ok, outcome,
                   requested, served, store_vars, norm_vars, hint_vars>>

\* get_legacy_results, lines 60-88 and 110-115, with the response of the
\* first fetch.
LegacyFirstStep(N, resp) ==
    LET r == LegacyFirst(resp, fetch_all)
    IN /\ FirstFetch("legacy", N, resp, r.ctl, r.error)
       /\ legacy_ips' = r.ips
       /\ legacy_total' = r.total_hits
       /\ legacy_error' = r.error
       /\ next_cursor' = r.cursor
       /\ pc' = CASE r.ctl = "loop" -> "legacy_page"
                  [] r.ctl = "return" -> "new_first"
                  [] OTHER -> "raised"
       /\ UNCHANGED <<fetch_all, legacy_query, new_query,
                      new_ips, new_total, new_error, page_token,
                      response, store_vars, norm_vars, hint_vars>>

LegacyFirstPage ==
    /\ pc = "legacy_first"
    /\ \E N \in Chains :
          \/ \E e \in FetchExceptions : LegacyFirstStep(N, Raise(e))
          \/ \E hits \in LegacyHitSeqs, links \in LinkValues(N, 1),
                K \in TotalSets("legacy", 1) :
                LegacyFirstStep(N, Ok(Result(hits, links, K)))

\* get_legacy_results, lines 89-108: one turn of the loop, with the response
\* of its fetch.
LegacyNextStep(resp) ==
    LET r == LegacyNext(legacy_ips, next_cursor, resp)
    IN /\ legacy_ips' = r.ips
       /\ legacy_error' = r.error
       /\ next_cursor' = r.cursor
       /\ pc' = IF r.ctl = "loop" THEN "legacy_page" ELSE "new_first"
       /\ NextFetch(resp, r.ctl, r.error)
       /\ UNCHANGED <<fetch_all, legacy_query, new_query,
                      legacy_total, new_ips, new_total, new_error,
                      page_token, response, store_vars, norm_vars, hint_vars>>

LegacyNextPage ==
    /\ pc = "legacy_page"
    /\ \/ \E e \in FetchExceptions : LegacyNextStep(Raise(e))
       \/ \E hits \in LegacyHitSeqs, links \in LinkValues(chain, next_cursor) :
             LegacyNextStep(Ok(Result(hits, links, {})))

\* compare, lines 241-273, run when get_new_results returns.
Respond(n_ips, n_total, n_err) ==
    response' = Some(CompareResult(legacy_ips, legacy_total, legacy_error,
                                   n_ips, n_total, n_err))

\* get_new_results, lines 120-183 and 205-210, with the response of the first
\* fetch.
NewFirstStep(N, resp) ==
    LET r == NewFirst(resp, fetch_all)
    IN /\ FirstFetch("new", N, resp, r.ctl, r.error)
       /\ new_ips' = r.ips
       /\ new_total' = r.total_hits
       /\ new_error' = r.error
       /\ page_token' = r.cursor
       /\ pc' = CASE r.ctl = "loop" -> "new_page"
                  [] r.ctl = "return" -> "done"
                  [] OTHER -> "raised"
       /\ IF r.ctl = "return" THEN Respond(r.ips, r.total_hits, r.error)
          ELSE UNCHANGED response
       /\ UNCHANGED <<fetch_all, legacy_query, new_query,
                      legacy_ips, legacy_total, legacy_error,
                      next_cursor, store_vars, norm_vars, hint_vars>>

NewFirstPage ==
    /\ pc = "new_first"
    /\ \E N \in Chains :
          \/ \E e \in FetchExceptions : NewFirstStep(N, Raise(e))
          \/ \E hits \in NewHitSeqs, links \in LinkValues(N, 1),
                K \in TotalSets("new", 1) :
                NewFirstStep(N, Ok(Result(hits, links, K)))

\* get_new_results, lines 184-203: one turn of the loop, with the response of
\* its fetch.
NewNextStep(resp) ==
    LET r == NewNext(new_ips, page_token, resp)
    IN /\ new_ips' = r.ips
       /\ new_error' = r.error
       /\ page_token' = r.cursor
       /\ pc' = IF r.ctl = "loop" THEN "new_page" ELSE "done"
       /\ IF r.ctl = "return" THEN Respond(r.ips, new_total, r.error)
          ELSE UNCHANGED response
       /\ NextFetch(resp, r.ctl, r.error)
       /\ UNCHANGED <<fetch_all, legacy_query, new_query,
                      legacy_ips, legacy_total, legacy_error,
                      next_cursor, new_total, store_vars, norm_vars, hint_vars>>

NewNextPage ==
    /\ pc = "new_page"
    /\ \/ \E e \in FetchExceptions : NewNextStep(Raise(e))
       \/ \E hits \in NewHitSeqs, links \in LinkValues(chain, page_token) :
             NewNextStep(Ok(Result(hits, links, {})))

\* The answer of save_search to a request for name.
SaveReply(c, code, name, overwrite) ==
    Some([op |-> "save", client |-> c, code |-> code, name |-> name,
          overwrite |-> overwrite])

\* save_search, lines 279-302: read the request, SELECT the name, and answer
\* 400 or 409, or go on to the write.
SaveCheck(c) ==
    /\ saves[c] = None
    /\ \E raw \in Names, p \in Payloads, overwrite \in BOOLEAN :
          LET name == Strip(raw)
              existing == SelectByName(table, name) # {}
          IN IF name = <<>>
             THEN /\ reply' = SaveReply(c, 400, name, overwrite)
                  /\ UNCHANGED saves
             ELSE IF SaveBranch(existing, overwrite) = "reject"
             THEN /\ reply' = SaveReply(c, 409, name, overwrite)
                  /\ UNCHANGED saves
             ELSE /\ saves' = [saves EXCEPT ![c] =
                                  Some([name |-> name, payload |-> p,
                                        existing |-> existing,
                                        overwrite |-> overwrite])]
                  /\ UNCHANGED reply
    /\ UNCHANGED <<table, next_id, clock, compare_vars, norm_vars, hint_vars>>

\* save_search, lines 304-326: the UPDATE or the INSERT, the commit and the
\* answer.
SaveWrite(c) ==
    /\ saves[c] # None
    /\ LET s == saves[c][1]
       IN /\ IF SaveBranch(s.existing, s.overwrite) = "update"
             THEN /\ table' = UpdateByName(table, s.name, s.payload, clock)
                  /\ UNCHANGED next_id
             ELSE /\ next_id <= MaxId
                  /\ table' = InsertRow(table, next_id, s.name, s.payload, clock)
                  /\ next_id' = next_id + 1
          /\ reply' = SaveReply(c, 200, s.name, s.overwrite)
    /\ saves' = [saves EXCEPT ![c] = None]
    /\ UNCHANGED <<clock, compare_vars, norm_vars, hint_vars>>

\* delete_search, lines 356-365.
DeleteSearch ==
    /\ \E search_id \in 1..MaxId :
          /\ table' = DeleteById(table, search_id)
          /\ reply' = Some([op |-> "delete", id |-> search_id, code |-> 200])
    /\ UNCHANGED <<next_id, clock, saves, compare_vars, norm_vars, hint_vars>>

\* load_searches, lines 332-353: the rows by timestamp, newest first, each
\* with its snapshot decoded.
LoadSearches ==
    /\ \E rows \in OrderByTimestampDesc(table) :
          reply' = Some([op |-> "list", code |-> 200,
                         searches |-> [i \in 1..Len(rows) |-> Listing(rows[i])]])
    /\ UNCHANGED <<table, next_id, clock, saves, compare_vars, norm_vars, hint_vars>>

\* A second passes.
Tick ==
    /\ clock < MaxClock
    /\ clock' = clock + 1
    /\ UNCHANGED <<table, next_id, saves, reply, compare_vars, norm_vars, hint_vars>>

StoreNext ==
    \/ \E c \in Clients : SaveCheck(c)
    \/ \E c \in Clients : SaveWrite(c)
    \/ DeleteSearch
    \/ LoadSearches
    \/ Tick

StoreSpec == Init /\ [][StoreNext]_vars

Next ==
    \/ CompareRequest
    \/ LegacyFirstPage
    \/ LegacyNextPage
    \/ NewFirstPage
    \/ NewNextPage

Spec == Init /\ [][Next]_vars

\* The records extract_ips_from_hits may be handed: objects carrying any of
\* the keys it looks at, and a key it does not know.
ShapeKeys == {"webproperty_v1", "host_v1", "ip", "ip_address", "name"}
WebValues ==
    { [resource |-> [hostname |-> IpC, endpoints |-> <<[ip |-> IpB]>>]],
      [resource |-> [hostname |-> HostName, endpoints |-> <<[port |-> 80]>>]],
      [resource |-> [endpoints |-> <<[ip |-> IpB], [ip |-> IpC]>>]],
      [other |-> 0] }
HostValues == { [resource |-> [ip |-> IpB]], [resource |-> [name |-> HostName]],
                [other |-> 0] }
Record(K, w, h, i, a) ==
    [k \in K |-> CASE k = "webproperty_v1" -> w
                  [] k = "host_v1" -> h
                  [] k = "ip" -> i
                  [] k = "ip_address" -> a
                  [] OTHER -> HostName]

NormInit ==
    /\ Started
    /\ normalized = <<>>
    /\ page = NoPage /\ first = None
    /\ \E K \in SUBSET ShapeKeys, w \in WebValues, h \in HostValues,
          i \in {IpA, IpB}, a \in {IpA, IpC} :
          record = Record(K, w, h, i, a)

\* A call extract_ips_from_hits([record]).
Normalize ==
    /\ Len(normalized) < 2
    /\ normalized' = Append(normalized, extract_ips_from_hits(<<record>>))
    /\ UNCHANGED <<record, compare_vars, store_vars, hint_vars>>

NormSpec == NormInit /\ [][Normalize]_vars

\* The first pages a paginator may be handed: any records, a links value
\* with or without a token, and any of its API's total-count fields.
HintInit ==
    /\ Started
    /\ record = <<>> /\ normalized = <<>>
    /\ first = None
    /\ \E side \in {"legacy", "new"}, fa \in BOOLEAN, N \in Chains :
          \E hits \in HitSeqs(side), links \in LinkValues(N, 1),
             K \in TotalSets(side, 1) :
             page = [side |-> side, fetch_all |-> fa,
                     resp |-> Ok(Result(hits, links, K))]

\* get_legacy_results / get_new_results up to the loop, on the page.
FirstPage ==
    /\ first = None
    /\ first' = Some(IF page.side = "legacy"
                     THEN LegacyFirst(page.resp, page.fetch_all)
                     ELSE NewFirst(page.resp, page.fetch_all))
    /\ UNCHANGED <<page, compare_vars, store_vars, norm_vars>>

HintSpec == HintInit /\ [][FirstPage]_vars

\* The handler thread runs on and every fetch returns.
\* (One of the four fetch steps is enabled at a time.)
Fetch == LegacyFirstPage \/ LegacyNextPage \/ NewFirstPage \/ NewNextPage
FairSpec == Spec /\ WF_vars(Fetch)

\* ---------------------------------------------------------------- claims
\* get_legacy_results has just returned to compare.
LegacyReturned == running = "legacy" /\ pc = "new_first"
\* get_new_results has just returned and compare has answered.
NewReturned == running = "new" /\ pc = "done"
\* compare answered with a ComparisonResult.
Answered == pc = "done" /\ response # None /\ response[1].code = 200
FetchFailed == outcome \in {"transport", "exception"}

\* C1: with fetch_all, when fetches 1..k succeed (k >= 1) and fetch k+1
\* fails, the paginator returns exactly the identifiers of pages 1..k
\* together with an error, and fetches nothing after the failure.
C1_PartialRetention ==
    /\ (running # "none" /\ calls >= 2 /\ FetchFailed) =>
          /\ fetch_all
          /\ pc \notin {"legacy_page", "new_page", "raised"}
    /\ (LegacyReturned /\ calls >= 2 /\ FetchFailed) =>
          legacy_ips = pages_ok /\ legacy_error # None
    /\ (NewReturned /\ calls >= 2 /\ FetchFailed) =>
          new_ips = pages_ok /\ new_error # None
C1_Witness ==
    /\ NewReturned /\ fetch_all /\ calls = 3 /\ FetchFailed
    /\ new_ips = {IpB, IpC}
    /\ legacy_ips = {IpA, IpB}
    /\ legacy_error = Some(<<"Pagination error: ", "failed">>)

\* C2: a transport/HTTP failure of the first fetch makes the paginator
\* return at once, with no identifiers, a non-null error and no
\* continuation fetch.
C2_FirstPageAbort ==
    /\ (running = "legacy" /\ calls = 1 /\ outcome = "transport") =>
          pc = "new_first" /\ legacy_ips = {} /\ legacy_error # None
    /\ (running = "new" /\ calls = 1 /\ outcome = "transport") =>
          pc = "done" /\ new_ips = {} /\ new_error # None
C2_Witness ==
    /\ running = "new" /\ calls = 1 /\ outcome = "transport" /\ fetch_all
    /\ new_error = Some(<<"failed", " - ", "body">>)
    /\ legacy_error = Some(<<>>)

\* C3: a failure on one side never keeps the other side from running nor
\* suppresses its results: once compare has entered the legacy paginator it
\* ends with a result, in which each side's ips are what its paginator
\* collected, the differences are computed from them, and the status is
\* "error" when a side failed.
C3_SidesIndependent ==
    /\ (running # "none" /\ pc \in {"done", "raised"}) =>
          running = "new" /\ Answered
    /\ Answered =>
          /\ response[1].legacy.ips = Sorted(legacy_ips)
          /\ response[1].legacy.error = legacy_error
          /\ response[1].new.ips = Sorted(new_ips)
          /\ response[1].new.error = new_error
          /\ response[1].comparison.missing_in_new = Sorted(legacy_ips \ new_ips)
          /\ response[1].comparison.only_in_new = Sorted(new_ips \ legacy_ips)
          /\ (legacy_error # None \/ new_error # None) =>
                response[1].status = "error"

\* C4: missing_in_new = L \ N, only_in_new = N \ L and common = |L \cap N|
\* for the sets L and N the two paginators returned.
C4_SetDifferences ==
    Answered =>
        LET c == response[1].comparison
            L == Range(response[1].legacy.ips)
            N == Range(response[1].new.ips)
        IN /\ L = legacy_ips /\ N = new_ips
           /\ Range(c.missing_in_new) = L \ N
           /\ Len(c.missing_in_new) = Cardinality(L \ N)
           /\ Range(c.only_in_new) = N \ L
           /\ Len(c.only_in_new) = Cardinality(N \ L)
           /\ c.common = Cardinality(L \cap N)
           /\ (L \cap N = {}) =>
                 c.common = 0 /\ Range(c.missing_in_new) = L
                              /\ Range(c.only_in_new) = N
           /\ (L = N) =>
                 c.missing_in_new = <<>> /\ c.only_in_new = <<>>
                 /\ c.common = Cardinality(L)
C4_Witness ==
    /\ Answered
    /\ legacy_ips = {IpA, IpB} /\ new_ips = {IpB, IpC}
    /\ response[1].comparison.common = 1
    /\ response[1].comparison.missing_in_new = <<IpA>>
    /\ response[1].comparison.only_in_new = <<IpC>>

\* C5: status is "error" if either side carries an error, whatever its
\* text; otherwise "warning" if missing_in_new is non-empty; otherwise
\* "success".
C5_StatusDerivation ==
    Answered =>
        response[1].status =
            IF response[1].legacy.error # None \/ response[1].new.error # None
            THEN "error"
            ELSE IF response[1].comparison.missing_in_new # <<>> THEN "warning"
            ELSE "success"

\* C6: over a chain of N successful pages a paginator issues exactly N
\* fetches with fetch_all and exactly 1 without, whatever N is.
C6_FetchCount ==
    ((LegacyReturned \/ NewReturned) /\ outcome = "ok") =>
        IF fetch_all THEN chain # 0 /\ calls = chain ELSE calls = 1
C6_Witness ==
    LegacyReturned /\ outcome = "ok" /\ fetch_all /\ chain = MaxPages
    /\ calls = MaxPages

\* C7: every compare that has started its fetches eventually finishes.
Fetching == pc \in {"legacy_first", "legacy_page", "new_first", "new_page"}
Finished == pc \in {"done", "raised"}
C7_AlwaysFinishes == Fetching ~> Finished
\* C7, amended: it finishes unless an API serves an endless chain.
C7_FinishesOnFiniteChains ==
    Fetching ~> (Finished \/ (pc \in {"legacy_page", "new_page"} /\ chain = 0))
C7_Witness ==
    NewReturned /\ outcome = "ok" /\ fetch_all /\ chain = MaxPages
    /\ calls = MaxPages /\ legacy_error = None /\ legacy_ips = {IpA}

\* C8: whatever way a fetch fails, compare does not raise: it returns a
\* result carrying a status and each side's error text.
C8_NeverRaises ==
    /\ pc # "raised"
    /\ (pc = "done" /\ running # "none") => Answered

\* C9: starting from an empty store, whatever the interleaving of save
\* requests (SELECT and write as separate steps) and deletes, no two stored
\* rows have the same name.
C9_UniqueNames ==
    \A r1 \in table, r2 \in table : r1.name = r2.name => r1.id = r2.id

\* C10: a save under a name the store holds, without overwrite, is answered
\* 409 and changes nothing: no row is added and no row is modified.
C10_DuplicateRejected ==
    [][\A c \in Clients :
          /\ (saves[c] = None /\ saves'[c] # None) =>
                ~(SelectByName(table, saves'[c][1].name) # {}
                  /\ ~saves'[c][1].overwrite)
          /\ (reply' # reply /\ reply'[1].op = "save" /\ reply'[1].client = c
              /\ SelectByName(table, reply'[1].name) # {}
              /\ ~reply'[1].overwrite /\ saves[c] = None) =>
                /\ reply'[1].code = 409
                /\ table' = table /\ next_id' = next_id /\ saves' = saves
          /\ (reply' # reply /\ reply'[1].code = 409) =>
                table' = table /\ next_id' = next_id]_vars
C10_Witness ==
    /\ reply # None /\ reply[1].code = 409
    /\ \E r \in table : r.name = reply[1].name /\ r.timestamp < clock

\* A row holds what a save request carried.
Holds(r, s) ==
    /\ r.name = s.name
    /\ r.legacy_query = s.payload.legacy_query
    /\ r.new_query = s.payload.new_query
    /\ r.virtual_hosts = s.payload.virtual_hosts
    /\ r.results = Dumps(s.payload.results)

\* C11: a save that found its name in the store (and so carries overwrite)
\* succeeds and replaces the queries, option, snapshot and timestamp of the
\* rows of that name, keeping the ids, the number of rows and the rows of
\* other names; a save that did not find its name adds exactly one row.
C11_SaveEffect ==
    [][\A c \in Clients :
          (saves[c] # None /\ saves'[c] = None) =>
             LET s == saves[c][1]
             IN /\ reply' = SaveReply(c, 200, s.name, s.overwrite)
                /\ IF s.existing
                   THEN /\ s.overwrite
                        /\ {r.id : r \in table'} = {r.id : r \in table}
                        /\ Cardinality(table') = Cardinality(table)
                        /\ next_id' = next_id
                        /\ \A r \in table : r.name # s.name => r \in table'
                        /\ \A r \in table' :
                              r.name = s.name =>
                                 /\ Holds(r, s) /\ r.timestamp = clock
                                 /\ \E old \in table :
                                       old.id = r.id /\ old.name = r.name
                   ELSE /\ table \subseteq table'
                        /\ Cardinality(table' \ table) = 1
                        /\ \A r \in table' \ table :
                              /\ Holds(r, s) /\ r.timestamp = clock
                              /\ r.id \notin {old.id : old \in table}]_vars
C11_Witness ==
    /\ reply # None /\ reply[1].op = "save" /\ reply[1].code = 200
    /\ reply[1].overwrite
    /\ \E r1 \in table, r2 \in table :
          /\ r1.id = 1 /\ r2.id = 2 /\ r1.name # r2.name
          /\ r1.name = reply[1].name
          /\ r1.timestamp = 1 /\ r2.timestamp = 0
          /\ r1.results = Dumps("r2")

\* C12: a compare whose legacy or new query is empty once stripped is
\* answered with the validation error and fetches nothing; a compare whose
\* stripped queries are both non-empty calls both paginators.
C12_EmptyRejected ==
    (pc # "idle" /\ (legacy_query = <<>> \/ new_query = <<>>)) =>
        /\ pc = "done" /\ response = Some(QueriesRequired)
        /\ running = "none" /\ calls = 0
C12_BothInvoked ==
    (Finished /\ legacy_query # <<>> /\ new_query # <<>>) => running = "new"
C12_Validation == C12_EmptyRejected /\ C12_BothInvoked

\* C13: a delete always answers success; it removes the row of its id and no
\* other, leaves a store without that id as it is, and a second delete of
\* the same id changes nothing more.
C13_DeleteIdempotent ==
    [][(reply' # None /\ reply'[1].op = "delete"
        /\ (reply' # reply \/ table' # table)) =>
          LET id == reply'[1].id
          IN /\ reply'[1].code = 200
             /\ table' \subseteq table
             /\ table \ table' = {r \in table : r.id = id}
             /\ Cardinality(table \ table') <= 1
             /\ ((\A r \in table : r.id # id) => table' = table)
             /\ DeleteById(table', id) = table'
             /\ next_id' = next_id /\ saves' = saves]_vars
C13_Witness ==
    /\ reply # None /\ reply[1].op = "delete" /\ reply[1].code = 200
    /\ next_id = 3 /\ Cardinality(table) = 1
    /\ \A r \in table : r.id # reply[1].id

\* C14: a list answers with every stored row exactly once, in order of
\* non-increasing timestamp, and a list that follows a successful save
\* starts with the row of the saved name.
C14_ListsAll ==
    [][(reply' # None /\ reply'[1].op = "list" /\ reply' # reply) =>
          LET L == reply'[1].searches
          IN /\ Len(L) = Cardinality(table)
             /\ {L[i] : i \in 1..Len(L)} = {Listing(r) : r \in table}
             /\ \A i, j \in 1..Len(L) :
                   i < j => L[i].timestamp >= L[j].timestamp]_vars
C14_LatestFirst ==
    [][(reply' # None /\ reply'[1].op = "list" /\ reply # None
        /\ reply[1].op = "save" /\ reply[1].code = 200
        /\ Cardinality(SelectByName(table, reply[1].name)) = 1) =>
          reply'[1].searches[1].name = reply[1].name]_vars
C14_NewestFirst == C14_ListsAll /\ C14_LatestFirst

\* The shapes in the order of their priority, and what a record's shape of a
\* given key holds.
Priority == <<"webproperty_v1", "host_v1", "ip", "ip_address">>
ShapeIds(r, key) ==
    CASE key = "webproperty_v1" ->
            LET res == IF "resource" \in DOMAIN r[key] THEN r[key].resource
                       ELSE <<>>
                eps == IF "endpoints" \in DOMAIN res THEN res.endpoints ELSE <<>>
            IN {x \in IPs : /\ "hostname" \in DOMAIN res
                            /\ res.hostname = x}
               \cup {x \in IPs : \E i \in 1..Len(eps) :
                                    "ip" \in DOMAIN eps[i] /\ eps[i].ip = x}
      [] key = "host_v1" ->
            {x \in IPs : /\ "resource" \in DOMAIN r[key]
                         /\ "ip" \in DOMAIN r[key].resource
                         /\ r[key].resource.ip = x}
      [] OTHER -> {r[key]}

\* C15: a record contributes the identifiers of the first shape, in the
\* order webproperty, host, ip, ip_address, whose key it carries, and
\* nothing of the later ones; a record carrying none of the keys contributes
\* nothing without an error; a second call returns what the first returned.
C15_ShapePriority ==
    \A n \in 1..Len(normalized) :
       LET present == {i \in 1..Len(Priority) : Priority[i] \in DOMAIN record}
       IN /\ normalized[n].exc = None
          /\ present = {} => normalized[n].extracted = {}
          /\ \A i \in present :
                (\A j \in present : i <= j) =>
                    normalized[n].extracted = ShapeIds(record, Priority[i])
          /\ normalized[n] = normalized[1]
C15_Witness ==
    /\ Len(normalized) = 2
    /\ DOMAIN record = {"webproperty_v1", "host_v1", "ip", "ip_address"}
    /\ record.ip = IpA /\ record.ip_address = IpA
    /\ normalized[2].extracted = {IpB, IpC}

\* C16: for each side the error is present exactly when one of its fetches
\* failed; a side whose fetches all succeeded without a matching record has
\* an empty list and no error; and a result in which a side has an error has
\* the status "error".
C16_ErrorIffFailed ==
    /\ LegacyReturned =>
          /\ (legacy_error # None) <=> (outcome # "ok")
          /\ (outcome = "ok" /\ pages_ok = {}) => legacy_ips = {}
    /\ (NewReturned /\ Answered) =>
          /\ (response[1].new.error # None) <=> (outcome # "ok")
          /\ (outcome = "ok" /\ pages_ok = {}) => response[1].new.ips = <<>>
          /\ response[1].legacy.error = legacy_error
          /\ response[1].legacy.ips = Sorted(legacy_ips)
C16_ErrorStatus ==
    (Answered /\ (response[1].legacy.error # None
                  \/ response[1].new.error # None)) =>
        response[1].status \notin {"success", "warning"}
C16_NoConflation == C16_ErrorIffFailed /\ C16_ErrorStatus

\* A sequence of str in strictly ascending order (so without duplicates).
Ascending(seq) == \A i, j \in 1..Len(seq) : i < j => StrLess(seq[i], seq[j])

\* C17: in every compare result legacy.ips, new.ips, missing_in_new and
\* only_in_new are in ascending string order without duplicates, and hold
\* the identifiers of the sets they come from.
C17_SortedOutput ==
    Answered =>
        /\ Ascending(response[1].legacy.ips)
        /\ Ascending(response[1].new.ips)
        /\ Ascending(response[1].comparison.missing_in_new)
        /\ Ascending(response[1].comparison.only_in_new)
        /\ Range(response[1].legacy.ips) = legacy_ips
        /\ Range(response[1].new.ips) = new_ips
C17_Witness ==
    /\ Answered
    /\ response[1].legacy.ips = <<IpA, IpB>>
    /\ response[1].new.ips = <<IpC, IpB>>
    /\ response[1].comparison.missing_in_new = <<IpA>>
    /\ response[1].comparison.only_in_new = <<IpC>>

\* The paginator got through the page: it neither raised nor recorded an error.
FirstPageOk == first # None /\ first[1].ctl # "raise" /\ first[1].error = None
\* The total-count fields the page carries.
TotalFields == DOMAIN page.resp.result \cap TotalKeys(page.side)

\* C18: after a successful first page the total-count hint is the first of
\* the known total fields the page carries, and the number of identifiers
\* collected from the page when it carries none.
C18_FirstAvailable ==
    (FirstPageOk /\ TotalFields # {}) =>
        first[1].total_hits =
            IF "total_results" \in TotalFields THEN TotalValue.total_results
            ELSE IF "total_count" \in TotalFields THEN TotalValue.total_count
            ELSE TotalValue.total
C18_DefaultHint ==
    (FirstPageOk /\ TotalFields = {}) =>
        first[1].total_hits = Cardinality(first[1].ips)
C18_TotalHint == C18_FirstAvailable /\ C18_DefaultHint
\* C19: a continuation fetch is issued only with fetch_all, after the
\* response to the previous fetch has arrived whole, and with the token that
\* response carried; a first fetch carries no token; and after a failed
\* fetch or a response without a token the paginator fetches no more.
C19_TokenDriven ==
    [][/\ (pc \in {"legacy_page", "new_page"}) =>
             /\ fetch_all /\ outcome = "ok" /\ served # 0
             /\ requested' = served
             /\ running' = running
       /\ (pc \in {"legacy_first", "new_first"}) => requested' = 0
       /\ (outcome' # "ok" \/ served' = 0) =>
             pc' \notin {"legacy_page", "new_page"}]_vars
C19_Witness ==
    /\ running = "new" /\ chain = 0 /\ calls = 3 /\ outcome = "ok"
    /\ requested = 1 /\ served = 2 /\ page_token = 2 /\ pc = "new_page"

\* An error text that starts with the qualifier of the loop's except clause.
Qualified(err) ==
    err # None /\ err[1] # <<>> /\ Head(err[1]) = "Pagination error: "

\* C20: a failed continuation fetch records an error that carries the
\* "Pagination error" qualifier, a failed first fetch records one that does
\* not, and a side's error, once recorded, is not replaced.
C20_ErrorQualifier ==
    [][/\ (legacy_error' # legacy_error) =>
             /\ legacy_error = None
             /\ pc \in {"legacy_first", "legacy_page"}
             /\ pc' # "legacy_page"
       /\ (new_error' # new_error) =>
             /\ new_error = None
             /\ pc \in {"new_first", "new_page"}
             /\ pc' # "new_page"
       /\ (pc = "legacy_page" /\ outcome' # "ok") => Qualified(legacy_error')
       /\ (pc = "new_page" /\ outcome' # "ok") => Qualified(new_error')
       /\ (pc = "legacy_first" /\ outcome' = "transport") =>
             legacy_error' # None /\ ~Qualified(legacy_error')
       /\ (pc = "new_first" /\ outcome' = "transport") =>
             new_error' # None /\ ~Qualified(new_error')
       /\ (pc = "legacy_first") => ~Qualified(legacy_error')
       /\ (pc = "new_first") => ~Qualified(new_error')]_vars
C20_Witness ==
    /\ Answered /\ fetch_all
    /\ response[1].legacy.error = Some(<<"Pagination error: ", "failed">>)
    /\ response[1].new.error = Some(<<"failed", " - ", "body">>)
    /\ response[1].legacy.ips = <<IpA>>
====
